---- MODULE Spec2Model ----
(***************************************************************************)
(* A model of the demini bundle analysis engine: the classify stage        *)
(* (demini-classify.js) and the trace stage (demini-trace.js).  Both are   *)
(* straight-line programs; every section of a program is one action, and   *)
(* pc names the section that runs next.  Statement indices are 0-based as  *)
(* in the source; ast, stmtInfo and graph are functions on 0..N-1.         *)
(***************************************************************************)
EXTENDS Integers, Sequences, FiniteSets, TLC

\* The inputs are built from at most MaxSegs segments (a segment is one
\* statement or a short block of statements that esbuild emits together).
MaxSegs == 4

\* ------------------------------------------------------------------------
\* Generic helpers
\* ------------------------------------------------------------------------

Range(s) == {s[i] : i \in DOMAIN s}

MinOf(S) == CHOOSE x \in S : \A y \in S : x <= y

MaxOf(S) == CHOOSE x \in S : \A y \in S : x >= y

RECURSIVE SetToSortedSeq(_)
SetToSortedSeq(S) ==
  IF S = {} THEN <<>> ELSE <<MinOf(S)>> \o SetToSortedSeq(S \ {MinOf(S)})

RECURSIVE SumLen(_)
SumLen(s) == IF s = <<>> THEN 0 ELSE Head(s).len + SumLen(Tail(s))

RECURSIVE SumNl(_)
SumNl(s) == IF s = <<>> THEN 0 ELSE Head(s).nl + SumNl(Tail(s))

\* The sequences of length 0..n over the set S.
SeqsUpTo(S, n) == UNION {[1..k -> S] : k \in 0..n}

\* ------------------------------------------------------------------------
\* The ESTree values the programs read.  An initializer keeps what the code
\* looks at: its node type, the arity of a curried arrow, the substrings the
\* code searches in its source slice, and the name of an Identifier callee.
\* ------------------------------------------------------------------------

NoInit ==
  [type |-> "null", params |-> 0, bodyType |-> "", bodyParams |-> 0,
   inner |-> {}, src |-> {}, callee |-> "", member |-> ""]

\* (a, b) => () => ...   with the substrings found in the inner arrow's slice
CurriedArrow(inner) ==
  [NoInit EXCEPT !.type = "ArrowFunctionExpression", !.params = 2,
                 !.bodyType = "ArrowFunctionExpression", !.bodyParams = 0,
                 !.inner = inner, !.src = inner]

\* function (...) {...}  with the substrings found in its source slice
FunctionExpr(src) ==
  [NoInit EXCEPT !.type = "FunctionExpression", !.params = 3,
                 !.bodyType = "BlockStatement", !.src = src]

\* name(...)
CallOf(callee) == [NoInit EXCEPT !.type = "CallExpression", !.callee = callee]

\* Object.<member>
MemberOf(member) == [NoInit EXCEPT !.type = "MemberExpression", !.member = member]

Declarator(name, init) ==
  [id |-> [type |-> "Identifier", names |-> <<name>>], init |-> init]

\* var <declarators>;   ids: the Identifier references walk.simple visits
VarDecl(decls, ids, len) ==
  [type |-> "VariableDeclaration", declarations |-> decls, id |-> "",
   expression |-> NoInit, ids |-> ids, len |-> len]

\* function name() {...}
FuncDecl(name, ids, len) ==
  [type |-> "FunctionDeclaration", declarations |-> <<>>, id |-> name,
   expression |-> NoInit, ids |-> ids, len |-> len]

\* expression;
ExprStmt(expr, ids, len) ==
  [type |-> "ExpressionStatement", declarations |-> <<>>, id |-> "",
   expression |-> expr, ids |-> ids, len |-> len]

\* ------------------------------------------------------------------------
\* The statement alphabet of the inputs.
\* ------------------------------------------------------------------------

\* var w=(a,b)=>()=>(b||a((b={exports:{}}).exports,b),b.exports);
HelperCJS == VarDecl(<<Declarator("w", CurriedArrow({"exports", "{}"}))>>, <<>>, 3)

\* var v = (a, b) => () => (a && (b = a(a = 0)), b);
HelperESM == VarDecl(<<Declarator("v", CurriedArrow({"= 0"}))>>, <<>>, 3)

\* var v=(a,b)=>()=>(a&&(b=a(a=0)),b);
HelperESMMinified == VarDecl(<<Declarator("v", CurriedArrow({"=0"}))>>, <<>>, 3)

\* var t = function (a, b, c) {... a.__esModule ...};
HelperToESM ==
  VarDecl(<<Declarator("t", FunctionExpr({"__esModule", "esModule"}))>>, <<>>, 3)

\* var R=w((e,m)=>{m.exports=1;});
FactoryR == VarDecl(<<Declarator("R", CallOf("w"))>>, <<"w">>, 2)

\* var S=w((e,m)=>{m.exports=2;});
FactoryS == VarDecl(<<Declarator("S", CallOf("w"))>>, <<"w">>, 2)

\* var m=v(()=>{a=f();});
FactoryM == VarDecl(<<Declarator("m", CallOf("v"))>>, <<"v", "a", "f">>, 2)

\* var q=t(R());
AdapterQ == VarDecl(<<Declarator("q", CallOf("t"))>>, <<"t", "R">>, 2)

\* var x=R();
ImportX == VarDecl(<<Declarator("x", CallOf("R"))>>, <<"R">>, 1)

\* var y=S();
ImportY == VarDecl(<<Declarator("y", CallOf("S"))>>, <<"S">>, 1)

\* m();
CallM == ExprStmt(CallOf("m"), <<"m">>, 1)

\* var a;
VarA == VarDecl(<<Declarator("a", NoInit)>>, <<>>, 1)

\* var b;
VarB == VarDecl(<<Declarator("b", NoInit)>>, <<>>, 1)

\* function f(n){return n?f(x,y):0}
FuncF == FuncDecl("f", <<"f", "x", "y">>, 2)

\* g(R,S,a);
UseRS == ExprStmt(CallOf("g"), <<"g", "R", "S", "a">>, 1)

\* var S=w((e,m)=>{}),w=(a,b)=>()=>(b||a((b={exports:{}}).exports,b),b.exports);
FactoryAndHelper ==
  VarDecl(<<Declarator("S", CallOf("w")),
            Declarator("w", CurriedArrow({"exports", "{}"}))>>, <<"w">>, 4)

\* g(<name>);
Use(name) == ExprStmt(CallOf("g"), <<"g", name>>, 1)

\* var <name> = Object.<member>;
Alias(name, member) == VarDecl(<<Declarator(name, MemberOf(member))>>, <<"Object">>, 1)

\* var require = createRequire(import.meta.url);
Banner ==
  VarDecl(<<Declarator("require", [CallOf("createRequire") EXCEPT !.src = {"import.meta.url"}])>>,
          <<"createRequire">>, 2)

\* var __commonJS = (cb, mod) => function () {...};   a helper under its own name
HelperNamed == VarDecl(<<Declarator("__commonJS", FunctionExpr({"exports"}))>>, <<>>, 3)

AllNames ==
  {"w", "v", "t", "R", "S", "m", "q", "x", "y", "a", "b", "f", "g",
   "c", "d", "n", "p", "require", "__commonJS"}

\* ------------------------------------------------------------------------
\* Source text.  The body is a sequence of chunks: a statement, a white-space
\* byte, or a block comment with the newline that ends its line.  len is the
\* chunk's length in bytes and nl the number of newlines in it.
\* ------------------------------------------------------------------------

NoStmt == ExprStmt(NoInit, <<>>, 0)

StmtChunk(s) == [k |-> "stmt", len |-> s.len, nl |-> 0, stmt |-> s, tag |-> <<>>]

NewlineChunk == [k |-> "ws", len |-> 1, nl |-> 1, stmt |-> NoStmt, tag |-> <<"\n">>]

CommentChunk(tag, len, nl) ==
  [k |-> "cmt", len |-> len, nl |-> nl, stmt |-> NoStmt, tag |-> tag]

\* The byte offset at which chunk p of text starts.
RECURSIVE OffsetOf(_, _)
OffsetOf(text, p) == IF p <= 1 THEN 0 ELSE OffsetOf(text, p - 1) + text[p - 1].len

\* text.slice(a, b) for offsets a <= b that fall on chunk borders.
Slice(text, a, b) ==
  LET RECURSIVE From(_, _)
      From(p, off) ==
        IF p > Len(text) \/ off >= b THEN <<>>
        ELSE IF off >= a /\ off + text[p].len <= b
             THEN <<text[p]>> \o From(p + 1, off + text[p].len)
             ELSE From(p + 1, off + text[p].len)
  IN From(1, 0)

\* text.endsWith("\n")
EndsWithNewline(text) ==
  /\ text # <<>>
  /\ text[Len(text)].nl > 0

\* acorn.parse(code).body: the statements in source order, with their byte
\* range and their line range (comments and white space belong to no node).
Parse(text) ==
  LET P == {p \in DOMAIN text : text[p].k = "stmt"}
      ord == SetToSortedSeq(P)
  IN [i \in 0..(Cardinality(P) - 1) |->
        LET p == ord[i + 1]
        IN [stmt      |-> text[p].stmt,
            start     |-> OffsetOf(text, p),
            end       |-> OffsetOf(text, p) + text[p].len,
            startLine |-> 1 + SumNl(SubSeq(text, 1, p - 1)),
            endLine   |-> 1 + SumNl(SubSeq(text, 1, p))]]

NumStmts(body) == Cardinality(DOMAIN body)

\* ------------------------------------------------------------------------
\* demini-trace: runtime helpers, definition map, reference graph
\* ------------------------------------------------------------------------

IsFunctionInit(init) ==
  init.type \in {"ArrowFunctionExpression", "FunctionExpression"}

IsCurriedArrow(init) ==
  /\ init.type = "ArrowFunctionExpression"
  /\ init.params = 2
  /\ init.bodyType = "ArrowFunctionExpression"
  /\ init.bodyParams = 0

\* The helper kind the trace stage gives one declarator, "" for none.
TraceHelperKind(decl) ==
  IF decl.init.type = "null" \/ decl.id.type # "Identifier" THEN ""
  ELSE IF IsCurriedArrow(decl.init) /\ "exports" \in decl.init.inner
                                    /\ "{}" \in decl.init.inner THEN "__commonJS"
  ELSE IF IsCurriedArrow(decl.init) /\ "= 0" \in decl.init.inner
                                    /\ "exports" \notin decl.init.inner THEN "__esm"
  ELSE IF IsFunctionInit(decl.init)
          /\ ("__esModule" \in decl.init.src \/ "esModule" \in decl.init.src)
       THEN "__toESM"
  ELSE IF IsFunctionInit(decl.init) /\ "getOwnPropertyNames" \in decl.init.src
                                    /\ "defineProperty" \in decl.init.src
       THEN "__copyProps"
  ELSE ""

NoHelpers == [n \in AllNames |-> ""]

RECURSIVE TraceHelpersOfDecls(_, _, _)
TraceHelpersOfDecls(decls, k, helpers) ==
  IF k > Len(decls) THEN helpers
  ELSE LET kind == TraceHelperKind(decls[k])
       IN TraceHelpersOfDecls(decls, k + 1,
            IF kind = "" THEN helpers
            ELSE [helpers EXCEPT ![decls[k].id.names[1]] = kind])

RECURSIVE TraceHelpersFrom(_, _, _)
TraceHelpersFrom(body, i, helpers) ==
  IF i >= NumStmts(body) THEN helpers
  ELSE TraceHelpersFrom(body, i + 1,
         IF body[i].stmt.type # "VariableDeclaration" THEN helpers
         ELSE TraceHelpersOfDecls(body[i].stmt.declarations, 1, helpers))

\* detectRuntimeHelpers(ast, code) of the trace stage: name -> kind, "" = absent
TraceDetectRuntimeHelpers(body) == TraceHelpersFrom(body, 0, NoHelpers)

RECURSIVE PatternNames(_, _)
PatternNames(decls, k) ==
  IF k > Len(decls) THEN <<>> ELSE decls[k].id.names \o PatternNames(decls, k + 1)

\* The names statement s defines (the list pushed to stmtDefs).
StmtNames(s) ==
  IF s.type = "VariableDeclaration" THEN PatternNames(s.declarations, 1)
  ELSE IF s.type = "FunctionDeclaration" /\ s.id # "" THEN <<s.id>>
  ELSE IF s.type = "ClassDeclaration" /\ s.id # "" THEN <<s.id>>
  ELSE <<>>

BuildStmtDefs(body) == [i \in DOMAIN body |-> StmtNames(body[i].stmt)]

\* definedBy.set(name, i) for each name of statement i; -1 = no entry
SetAll(map, names, i) ==
  [n \in AllNames |-> IF n \in Range(names) THEN i ELSE map[n]]

RECURSIVE DefinedByFrom(_, _, _)
DefinedByFrom(body, i, map) ==
  IF i >= NumStmts(body) THEN map
  ELSE DefinedByFrom(body, i + 1, SetAll(map, StmtNames(body[i].stmt), i))

BuildDefinedBy(body) == DefinedByFrom(body, 0, [n \in AllNames |-> -1])

EmptyGraph(body) == [i \in DOMAIN body |-> [refs_out |-> {}, refs_in |-> {}]]

\* Seeded fault: the edge is recorded at the referencing statement only.
AddEdgeOneWay(g, i, defIdx) ==
  [j \in DOMAIN g |->
     [refs_out |-> IF j = i THEN g[j].refs_out \cup {defIdx} ELSE g[j].refs_out,
      refs_in  |-> g[j].refs_in]]

\* graph[i].refs_out.add(defIdx); graph[defIdx].refs_in.add(i)
AddEdge(g, i, defIdx) ==
  [j \in DOMAIN g |->
     [refs_out |-> IF j = i THEN g[j].refs_out \cup {defIdx} ELSE g[j].refs_out,
      refs_in  |-> IF j = defIdx THEN g[j].refs_in \cup {i} ELSE g[j].refs_in]]

\* Seeded fault: the visitor only asks whether the name has a definition site.
VisitIdentifierAnySite(g, i, name, defs, selfNames) ==
  LET defIdx == IF name \in AllNames THEN defs[name] ELSE -1
  IN IF defIdx # -1 THEN AddEdge(g, i, defIdx) ELSE g

\* The Identifier visitor of statement i applied to the identifier name.
VisitIdentifier(g, i, name, defs, selfNames) ==
  LET defIdx == IF name \in AllNames THEN defs[name] ELSE -1
  IN IF defIdx # -1 /\ defIdx # i /\ name \notin selfNames
     THEN AddEdge(g, i, defIdx) ELSE g

RECURSIVE WalkIds(_, _, _, _, _, _)
WalkIds(g, i, ids, k, defs, selfNames) ==
  IF k > Len(ids) THEN g
  ELSE WalkIds(VisitIdentifier(g, i, ids[k], defs, selfNames), i, ids, k + 1,
               defs, selfNames)

RECURSIVE TraceGraphFrom(_, _, _, _)
TraceGraphFrom(body, i, g, defs) ==
  IF i >= NumStmts(body) THEN g
  ELSE TraceGraphFrom(body, i + 1,
         WalkIds(g, i, body[i].stmt.ids, 1, defs, Range(StmtNames(body[i].stmt))),
         defs)

BuildGraph(body, defs) == TraceGraphFrom(body, 0, EmptyGraph(body), defs)

\* ------------------------------------------------------------------------
\* demini-trace: WrapKind per statement and the preamble extension
\* ------------------------------------------------------------------------

HelperOf(helpers, name) == IF name \in AllNames THEN helpers[name] ELSE ""

IsIdentifierCall(init) == init.type = "CallExpression" /\ init.callee # ""

RECURSIVE WrapKindOfDecls(_, _, _)
WrapKindOfDecls(decls, k, helpers) ==
  IF k > Len(decls) THEN "None"
  ELSE LET d == decls[k]
           helper == HelperOf(helpers, d.init.callee)
       IN IF d.id.type = "Identifier" /\ HelperOf(helpers, d.id.names[1]) # ""
          THEN "RUNTIME"
          ELSE IF IsIdentifierCall(d.init) /\ helper = "__commonJS" THEN "CJS"
          ELSE IF IsIdentifierCall(d.init) /\ helper = "__esm" THEN "ESM"
          ELSE IF IsIdentifierCall(d.init) /\ helper = "__toESM" THEN "IMPORT"
          ELSE IF IsIdentifierCall(d.init) /\ helper = "__copyProps" THEN "IMPORT"
          ELSE WrapKindOfDecls(decls, k + 1, helpers)

classifyStmtWrapKind(s, helpers) ==
  IF s.type # "VariableDeclaration" THEN "None"
  ELSE WrapKindOfDecls(s.declarations, 1, helpers)

BuildStmtInfo(body, helpers) ==
  [i \in DOMAIN body |->
     [wrapKind |-> classifyStmtWrapKind(body[i].stmt, helpers), moduleId |-> -1]]

\* Seeded fault: firstFactoryIdx starts at 0 and the scan never raises it.
FirstFactoryIdxZero(info) == 0

\* The index of the first CJS/ESM statement, the statement count when none.
FirstFactoryIdx(info) ==
  LET F == {i \in DOMAIN info : info[i].wrapKind \in {"CJS", "ESM"}}
  IN IF F = {} THEN Cardinality(DOMAIN info) ELSE MinOf(F)

\* Seeded fault: every None statement is reclassified, wherever it stands.
PreambleExtensionEverywhere(info) ==
  [i \in DOMAIN info |->
     IF info[i].wrapKind = "None"
     THEN [info[i] EXCEPT !.wrapKind = "RUNTIME"] ELSE info[i]]

PreambleExtension(info) ==
  [i \in DOMAIN info |->
     IF i < FirstFactoryIdx(info) /\ info[i].wrapKind = "None"
     THEN [info[i] EXCEPT !.wrapKind = "RUNTIME"] ELSE info[i]]

\* ------------------------------------------------------------------------
\* demini-trace: module identification.  A pass maps the record
\* [info, mods, next] (stmtInfo, modules, nextModuleId) to its new value.
\* ------------------------------------------------------------------------

NewModule(id, wrapKind, statements, primary) ==
  [id |-> id, wrapKind |-> wrapKind, statements |-> statements,
   primary |-> primary, deps_out |-> {}, deps_in |-> {},
   line_start |-> 0, line_end |-> 0, bytes |-> 0]

AssignAll(info, S, id) ==
  [i \in DOMAIN info |-> IF i \in S THEN [info[i] EXCEPT !.moduleId = id] ELSE info[i]]

\* Pass 1: the RUNTIME statements form one module.
Pass1(st) ==
  LET runtimeStmts == {i \in DOMAIN st.info : st.info[i].wrapKind = "RUNTIME"}
      list == SetToSortedSeq(runtimeStmts)
  IN IF runtimeStmts = {} THEN st
     ELSE [info |-> AssignAll(st.info, runtimeStmts, st.next),
           mods |-> Append(st.mods, NewModule(st.next, "RUNTIME", list, list[1])),
           next |-> st.next + 1]

\* Pass 2: every CJS statement is a module of its own.
RECURSIVE Pass2From(_, _)
Pass2From(st, i) ==
  IF i >= NumStmts(st.info) THEN st
  ELSE Pass2From(
         IF st.info[i].wrapKind = "CJS"
         THEN [info |-> AssignAll(st.info, {i}, st.next),
               mods |-> Append(st.mods, NewModule(st.next, "CJS", <<i>>, i)),
               next |-> st.next + 1]
         ELSE st,
         i + 1)

Pass2(st) == Pass2From(st, 0)

RECURSIVE HasEsmCall(_, _, _)
HasEsmCall(decls, k, helpers) ==
  IF k > Len(decls) THEN FALSE
  ELSE \/ IsIdentifierCall(decls[k].init) /\ HelperOf(helpers, decls[k].init.callee) = "__esm"
       \/ HasEsmCall(decls, k + 1, helpers)

IsEsmFactory(s, helpers) ==
  s.type = "VariableDeclaration" /\ HasEsmCall(s.declarations, 1, helpers)

\* Seeded fault: the back-trace steps over an assigned statement (continue)
\* where the code stops at it (break).
RECURSIVE BackTraceSkipping(_, _)
BackTraceSkipping(info, j) ==
  IF j < 0 THEN {}
  ELSE IF info[j].moduleId # -1 \/ info[j].wrapKind # "None"
  THEN BackTraceSkipping(info, j - 1)
  ELSE {j} \cup BackTraceSkipping(info, j - 1)

\* The statements the back-trace loop absorbs, scanning j, j-1, ... down to 0.
RECURSIVE BackTrace(_, _)
BackTrace(info, j) ==
  IF j < 0 THEN {}
  ELSE IF info[j].moduleId # -1 \/ info[j].wrapKind # "None" THEN {}
  ELSE {j} \cup BackTrace(info, j - 1)

\* Seeded fault: the absorbed statements keep the WrapKind they had.
AbsorbIntoKeepingKind(info, i, absorbed, id) ==
  [j \in DOMAIN info |->
     IF j = i \/ j \in absorbed THEN [info[j] EXCEPT !.moduleId = id] ELSE info[j]]

\* The factory i and the absorbed statements get the module id; the absorbed
\* statements are reclassified ESM.
AbsorbInto(info, i, absorbed, id) ==
  [j \in DOMAIN info |->
     IF j = i THEN [info[j] EXCEPT !.moduleId = id]
     ELSE IF j \in absorbed THEN [wrapKind |-> "ESM", moduleId |-> id]
     ELSE info[j]]

\* Pass 3: ESM factories with back-tracing, adapters as micro-modules.
RECURSIVE Pass3From(_, _, _, _)
Pass3From(st, i, body, helpers) ==
  IF i >= NumStmts(st.info) THEN st
  ELSE Pass3From(
         IF st.info[i].wrapKind # "ESM" THEN st
         ELSE IF IsEsmFactory(body[i].stmt, helpers)
         THEN LET absorbed == BackTrace(st.info, i - 1)
              IN [info |-> AbsorbInto(st.info, i, absorbed, st.next),
                  mods |-> Append(st.mods,
                             NewModule(st.next, "ESM",
                                       SetToSortedSeq(absorbed \cup {i}), i)),
                  next |-> st.next + 1]
         ELSE [info |-> AssignAll(st.info, {i}, st.next),
               mods |-> Append(st.mods, NewModule(st.next, "ESM", <<i>>, i)),
               next |-> st.next + 1],
         i + 1, body, helpers)

Pass3(st, body, helpers) == Pass3From(st, 0, body, helpers)

\* The names defined by the statements of the CJS and ESM modules.
FactoryNames(mods, defs) ==
  UNION {Range(defs[si]) :
           si \in UNION {Range(mods[k].statements) :
                           k \in {k \in DOMAIN mods : mods[k].wrapKind \in {"CJS", "ESM"}}}}

RECURSIVE CallsFactory(_, _, _)
CallsFactory(decls, k, names) ==
  IF k > Len(decls) THEN FALSE
  ELSE \/ IsIdentifierCall(decls[k].init) /\ decls[k].init.callee \in names
       \/ CallsFactory(decls, k + 1, names)

IsBareInvocation(s, names) ==
  IF s.type = "VariableDeclaration" THEN CallsFactory(s.declarations, 1, names)
  ELSE /\ s.type = "ExpressionStatement"
       /\ IsIdentifierCall(s.expression)
       /\ s.expression.callee \in names

\* Seeded fault: every statement that invokes a factory becomes IMPORT, be it
\* assigned or not.
Pass4Unguarded(st, body, defs) ==
  [st EXCEPT !.info =
     [i \in DOMAIN st.info |->
        IF IsBareInvocation(body[i].stmt, FactoryNames(st.mods, defs))
        THEN [st.info[i] EXCEPT !.wrapKind = "IMPORT"]
        ELSE st.info[i]]]

\* Pass 4: unassigned None statements that invoke a factory become IMPORT.
Pass4(st, body, defs) ==
  [st EXCEPT !.info =
     [i \in DOMAIN st.info |->
        IF st.info[i].moduleId # -1 \/ st.info[i].wrapKind # "None" THEN st.info[i]
        ELSE IF IsBareInvocation(body[i].stmt, FactoryNames(st.mods, defs))
        THEN [st.info[i] EXCEPT !.wrapKind = "IMPORT"]
        ELSE st.info[i]]]

\* computeFingerprint(stmtIdx)
computeFingerprint(stmtIdx, info, g) ==
  {info[ref].moduleId : ref \in {r \in g[stmtIdx].refs_out : info[r].moduleId # -1}}

\* jaccard(a, b) as the fraction <<numerator, denominator>>
\* Seeded fault: the similarity is 1.0 as soon as either set is empty.
jaccardEitherEmpty(a, b) ==
  IF a = {} \/ b = {} THEN <<1, 1>>
  ELSE <<Cardinality(a \cap b),
         Cardinality(a) + Cardinality(b) - Cardinality(a \cap b)>>

jaccard(a, b) ==
  IF a = {} /\ b = {} THEN <<1, 1>>
  ELSE <<Cardinality(a \cap b),
         Cardinality(a) + Cardinality(b) - Cardinality(a \cap b)>>

\* Seeded fault: the threshold is 0, so that every similarity reaches it.
AtLeastZero(sim) == sim[1] >= 0

\* sim >= JACCARD_THRESHOLD, the threshold being 0.5
AtLeastThreshold(sim) == 2 * sim[1] >= sim[2]

\* The maximal contiguous runs of unassigned statements, in source order.
RECURSIVE RunsFrom(_, _, _, _)
RunsFrom(info, i, rs, currentRun) ==
  IF i >= NumStmts(info)
  THEN IF currentRun # <<>> THEN Append(rs, currentRun) ELSE rs
  ELSE IF info[i].moduleId = -1
  THEN RunsFrom(info, i + 1, rs, Append(currentRun, i))
  ELSE RunsFrom(info, i + 1,
                IF currentRun # <<>> THEN Append(rs, currentRun) ELSE rs, <<>>)

\* Seeded fault: the run still open at the last statement is never pushed.
SplitRunsUnflushed(info) ==
  LET rs == RunsFrom(info, 0, <<>>, <<>>)
      n == NumStmts(info)
  IN IF n > 0 /\ info[n - 1].moduleId = -1 THEN SubSeq(rs, 1, Len(rs) - 1) ELSE rs

SplitRuns(info) == RunsFrom(info, 0, <<>>, <<>>)

\* Seeded fault: the inner loop stops after one statement, so that every
\* IMPORT statement is an element of its own.
SuperNodeEndAfterOne(run, i, info) == i + 1

\* The position after the IMPORT statements that start at position i of run.
RECURSIVE SuperNodeEnd(_, _, _)
SuperNodeEnd(run, i, info) ==
  IF i <= Len(run) /\ info[run[i]].wrapKind = "IMPORT"
  THEN SuperNodeEnd(run, i + 1, info) ELSE i

\* The elements of a run: IMPORT blocks collapsed, other statements alone.
RECURSIVE ElementsFrom(_, _, _, _)
ElementsFrom(run, i, info, g) ==
  IF i > Len(run) THEN <<>>
  ELSE IF info[run[i]].wrapKind = "IMPORT"
  THEN LET e == SuperNodeEnd(run, i, info)
           superNode == SubSeq(run, i, e - 1)
       IN <<[indices |-> superNode,
             fingerprint |-> UNION {computeFingerprint(si, info, g) :
                                      si \in Range(superNode)}]>>
          \o ElementsFrom(run, e, info, g)
  ELSE <<[indices |-> <<run[i]>>,
          fingerprint |-> computeFingerprint(run[i], info, g)]>>
       \o ElementsFrom(run, i + 1, info, g)

BuildElements(run, info, g) == ElementsFrom(run, 1, info, g)

RECURSIVE FlatIndices(_)
FlatIndices(cl) ==
  IF cl = <<>> THEN <<>> ELSE Head(cl).indices \o FlatIndices(Tail(cl))

\* Seeded fault: the module is pushed but nextModuleId is not incremented.
flushClusterReusingId(st, cl) ==
  LET allIndices == FlatIndices(cl)
  IN [info |-> AssignAll(st.info, Range(allIndices), st.next),
      mods |-> Append(st.mods, NewModule(st.next, "None", allIndices, allIndices[1])),
      next |-> st.next]

flushCluster(st, cl) ==
  LET allIndices == FlatIndices(cl)
      wrapKind == IF \A k \in DOMAIN allIndices :
                       st.info[allIndices[k]].wrapKind = "IMPORT"
                  THEN "IMPORT" ELSE "None"
  IN [info |-> AssignAll(st.info, Range(allIndices), st.next),
      mods |-> Append(st.mods, NewModule(st.next, wrapKind, allIndices, allIndices[1])),
      next |-> st.next + 1]

\* Seeded fault: the element is compared with the last element of the cluster
\* only, not with the merged fingerprint of the cluster.
ClusterFingerprintOfLast(cl) == cl[Len(cl)].fingerprint

\* clusterFp: the union of the fingerprints of the elements of the cluster
ClusterFingerprint(cl) == UNION {cl[k].fingerprint : k \in DOMAIN cl}

\* Whether element e extends the cluster cl.
JoinsCluster(cl, e) == AtLeastThreshold(jaccard(ClusterFingerprint(cl), e.fingerprint))

RECURSIVE ClusterFrom(_, _, _, _)
ClusterFrom(st, elements, j, cluster) ==
  IF j > Len(elements) THEN flushCluster(st, cluster)
  ELSE IF JoinsCluster(cluster, elements[j])
  THEN ClusterFrom(st, elements, j + 1, Append(cluster, elements[j]))
  ELSE ClusterFrom(flushCluster(st, cluster), elements, j + 1, <<elements[j]>>)

ProcessRun(st, run, g) ==
  LET elements == BuildElements(run, st.info, g)
  IN ClusterFrom(st, elements, 2, <<elements[1]>>)

RECURSIVE Pass5From(_, _, _, _)
Pass5From(st, rs, k, g) ==
  IF k > Len(rs) THEN st ELSE Pass5From(ProcessRun(st, rs[k], g), rs, k + 1, g)

\* Pass 5: Jaccard clustering of every unassigned run.
Pass5(st, g) == Pass5From(st, SplitRuns(st.info), 1, g)

\* ------------------------------------------------------------------------
\* demini-trace: renumbering and module-level dependencies
\* ------------------------------------------------------------------------

MinStmt(mod) == MinOf(Range(mod.statements))

\* Seeded fault: the modules are compared by their largest statement index.
RECURSIVE InsertByMax(_, _)
InsertByMax(sorted, mod) ==
  IF sorted = <<>> THEN <<mod>>
  ELSE IF MaxOf(Range(Head(sorted).statements)) - MaxOf(Range(mod.statements)) <= 0
  THEN <<Head(sorted)>> \o InsertByMax(Tail(sorted), mod)
  ELSE <<mod>> \o sorted

\* Insert mod into the sorted list, after the modules that do not follow it.
RECURSIVE InsertByMin(_, _)
InsertByMin(sorted, mod) ==
  IF sorted = <<>> THEN <<mod>>
  ELSE IF MinStmt(Head(sorted)) - MinStmt(mod) <= 0
  THEN <<Head(sorted)>> \o InsertByMin(Tail(sorted), mod)
  ELSE <<mod>> \o sorted

\* Seeded fault: the comparator is turned round (b - a), the order descends.
RECURSIVE SortByMinDescending(_)
SortByMinDescending(mods) ==
  IF mods = <<>> THEN <<>>
  ELSE LET rest == SortByMinDescending(SubSeq(mods, 1, Len(mods) - 1))
           mod == mods[Len(mods)]
           n == Cardinality({k \in DOMAIN rest : MinStmt(rest[k]) > MinStmt(mod)})
       IN SubSeq(rest, 1, n) \o <<mod>> \o SubSeq(rest, n + 1, Len(rest))

\* modules.sort((a, b) => min(a.statements) - min(b.statements))
RECURSIVE SortByMin(_)
SortByMin(mods) ==
  IF mods = <<>> THEN <<>>
  ELSE InsertByMin(SortByMin(SubSeq(mods, 1, Len(mods) - 1)), mods[Len(mods)])

\* new id of the old id: the last idMap.set(mod.id, idx) wins
IdMap(sorted, old) == MaxOf({k \in DOMAIN sorted : sorted[k].id = old}) - 1

\* Seeded fault: the ids are handed out without sorting the modules first.
RenumberUnsorted(st) ==
  [info |-> [i \in DOMAIN st.info |->
               IF st.info[i].moduleId # -1
               THEN [st.info[i] EXCEPT !.moduleId = IdMap(st.mods, @)]
               ELSE st.info[i]],
   mods |-> [k \in DOMAIN st.mods |-> [st.mods[k] EXCEPT !.id = k - 1]],
   next |-> st.next]

Renumber(st) ==
  LET sorted == SortByMin(st.mods)
  IN [info |-> [i \in DOMAIN st.info |->
                  IF st.info[i].moduleId # -1
                  THEN [st.info[i] EXCEPT !.moduleId = IdMap(sorted, @)]
                  ELSE st.info[i]],
      mods |-> [k \in DOMAIN sorted |-> [sorted[k] EXCEPT !.id = k - 1]],
      next |-> st.next]

RECURSIVE SumStmtBytes(_, _)
SumStmtBytes(stmts, body) ==
  IF stmts = <<>> THEN 0
  ELSE (body[Head(stmts)].end - body[Head(stmts)].start) + SumStmtBytes(Tail(stmts), body)

\* The module ids other than mod's own reached through refs (out or in).
ModuleDeps(mod, info, refsOf) ==
  {info[ref].moduleId :
     ref \in {r \in UNION {refsOf[si] : si \in Range(mod.statements)} :
                info[r].moduleId # mod.id}}

CompileModule(mod, info, g, body) ==
  [mod EXCEPT
     !.deps_out = ModuleDeps(mod, info, [i \in DOMAIN g |-> g[i].refs_out]),
     !.deps_in = ModuleDeps(mod, info, [i \in DOMAIN g |-> g[i].refs_in]),
     !.line_start = MinOf({body[si].startLine : si \in Range(mod.statements)}),
     !.line_end = MaxOf({body[si].endLine : si \in Range(mod.statements)}),
     !.bytes = SumStmtBytes(mod.statements, body)]

CompileModules(mods, info, g, body) ==
  [k \in DOMAIN mods |-> CompileModule(mods[k], info, g, body)]

\* ------------------------------------------------------------------------
\* Files.  A file is its shebang line (if any) followed by the body.
\* ------------------------------------------------------------------------

ShebangChunk == [k |-> "shebang", len |-> 2, nl |-> 1, stmt |-> NoStmt, tag |-> <<"#!">>]

\* code.startsWith("#!"): the shebang line is cut off the body
ShebangOf(file) ==
  IF file # <<>> /\ file[1].k = "shebang" THEN <<file[1]>> ELSE <<>>

BodyOf(file) ==
  IF file # <<>> /\ file[1].k = "shebang" THEN Tail(file) ELSE file

\* ------------------------------------------------------------------------
\* demini-trace: the traced output
\* ------------------------------------------------------------------------

\* /* --- MODULE BOUNDARY [id] Wrap<kind> (<n> stmts, <bytes> bytes) --- */\n
BoundaryComment(mod) ==
  CommentChunk(<<"boundary", mod.id, mod.wrapKind, Len(mod.statements), mod.bytes>>, 2, 1)

StartsModule(mods, i) == \E k \in DOMAIN mods : MinStmt(mods[k]) = i

\* boundaryStmts.get(i): the last module set for its first statement i
BoundaryModule(mods, i) == mods[MaxOf({k \in DOMAIN mods : MinStmt(mods[k]) = i})]

\* What the loop body appends to output for statement i.
TraceEmit(out, i, lastEnd, body, mods, text) ==
  LET sep == IF StartsModule(mods, i) /\ Len(out) > 0 /\ ~EndsWithNewline(out)
             THEN <<NewlineChunk>> ELSE <<>>
      boundary == IF StartsModule(mods, i)
                  THEN <<BoundaryComment(BoundaryModule(mods, i))>> ELSE <<>>
      gap == IF body[i].start > lastEnd THEN Slice(text, lastEnd, body[i].start)
             ELSE <<>>
  IN out \o sep \o boundary \o gap \o Slice(text, body[i].start, body[i].end)

RECURSIVE TraceOutputFrom(_, _, _, _, _, _)
TraceOutputFrom(out, i, lastEnd, body, mods, text) ==
  IF i >= NumStmts(body)
  THEN IF lastEnd < SumLen(text) THEN out \o Slice(text, lastEnd, SumLen(text))
       ELSE out
  ELSE TraceOutputFrom(TraceEmit(out, i, lastEnd, body, mods, text), i + 1,
                       body[i].end, body, mods, text)

TraceOutput(sb, body, mods, text) == TraceOutputFrom(sb, 0, 0, body, mods, text)

\* ------------------------------------------------------------------------
\* demini-classify: helpers, categories, the annotated output
\* ------------------------------------------------------------------------

KnownHelpers == {"__commonJS", "__esm", "__toESM", "__copyProps"}

\* innerSrc.replace(/\s+/g, ''): the substrings found once white space is gone
Normalized(inner) ==
  (inner \ {"= 0", "{ }"})
    \cup (IF "= 0" \in inner THEN {"=0"} ELSE {})
    \cup (IF "{ }" \in inner THEN {"{}"} ELSE {})

\* The helper kind the classify stage gives one declarator, "" for none.
ClassifyHelperKind(decl) ==
  IF decl.init.type = "null" \/ decl.id.type # "Identifier" THEN ""
  ELSE IF decl.id.names[1] \in KnownHelpers THEN decl.id.names[1]
  ELSE IF IsCurriedArrow(decl.init) /\ "exports" \in Normalized(decl.init.inner)
                                    /\ "{}" \in Normalized(decl.init.inner)
       THEN "__commonJS"
  ELSE IF IsCurriedArrow(decl.init) /\ "=0" \in Normalized(decl.init.inner)
                                    /\ "exports" \notin Normalized(decl.init.inner)
       THEN "__esm"
  ELSE IF IsFunctionInit(decl.init)
          /\ ("__esModule" \in decl.init.src \/ "esModule" \in decl.init.src)
       THEN "__toESM"
  ELSE IF IsFunctionInit(decl.init) /\ "getOwnPropertyNames" \in decl.init.src
                                    /\ "defineProperty" \in decl.init.src
       THEN "__copyProps"
  ELSE ""

RECURSIVE ClassifyHelpersOfDecls(_, _, _)
ClassifyHelpersOfDecls(decls, k, helpers) ==
  IF k > Len(decls) THEN helpers
  ELSE LET kind == ClassifyHelperKind(decls[k])
       IN ClassifyHelpersOfDecls(decls, k + 1,
            IF kind = "" THEN helpers
            ELSE [helpers EXCEPT ![decls[k].id.names[1]] = kind])

RECURSIVE ClassifyHelpersFrom(_, _, _)
ClassifyHelpersFrom(body, i, helpers) ==
  IF i >= NumStmts(body) THEN helpers
  ELSE ClassifyHelpersFrom(body, i + 1,
         IF body[i].stmt.type # "VariableDeclaration" THEN helpers
         ELSE ClassifyHelpersOfDecls(body[i].stmt.declarations, 1, helpers))

\* detectRuntimeHelpers(ast, code) of the classify stage
ClassifyDetectRuntimeHelpers(body) == ClassifyHelpersFrom(body, 0, NoHelpers)

\* src.includes(pat) for one of the four preamblePatterns: in the statements of
\* the model "Object.<member>" is the text of a MemberExpression initializer.
HasPreamblePattern(s) ==
  \E k \in DOMAIN s.declarations :
    /\ s.declarations[k].init.type = "MemberExpression"
    /\ s.declarations[k].init.member \in
         {"create", "defineProperty", "getOwnPropertyDescriptor", "getOwnPropertyNames"}

\* The identifiers and searched substrings that occur in a statement's text.
Mentions(s) ==
  Range(s.ids) \cup UNION {s.declarations[k].init.src : k \in DOMAIN s.declarations}

\* Seeded fault: every helper name, not every helper kind, pushes a signal.
detectBundleTypePerName(body, helpers) ==
  LET count == Cardinality({n \in AllNames : helpers[n] # ""})
  IN IF count >= 2 THEN [bundler |-> "esbuild", confidence |-> "high", signals |-> count]
     ELSE IF count = 1 THEN [bundler |-> "esbuild", confidence |-> "medium", signals |-> count]
     ELSE [bundler |-> "unknown", confidence |-> "low", signals |-> count]

\* detectBundleType: signals is the number of signals pushed.
detectBundleType(body, helpers) ==
  LET helperNames == {helpers[n] : n \in AllNames}
      preambleCount == Cardinality({i \in DOMAIN body : i < 5 /\ HasPreamblePattern(body[i].stmt)})
      code == UNION {Mentions(body[i].stmt) : i \in DOMAIN body}
      count == Cardinality(helperNames \cap KnownHelpers)
                 + (IF preambleCount >= 3 THEN 1 ELSE 0)
                 + (IF "createRequire" \in code /\ "import.meta.url" \in code THEN 1 ELSE 0)
  IN IF count >= 2 THEN [bundler |-> "esbuild", confidence |-> "high", signals |-> count]
     ELSE IF count = 1 THEN [bundler |-> "esbuild", confidence |-> "medium", signals |-> count]
     ELSE [bundler |-> "unknown", confidence |-> "low", signals |-> count]

PreambleMembers ==
  {"create", "defineProperty", "getOwnPropertyDescriptor", "getOwnPropertyNames",
   "getPrototypeOf", "prototype.hasOwnProperty"}

FactoryCategory(helper) ==
  IF helper = "__commonJS" THEN "MODULE_FACTORY.__commonJS"
  ELSE IF helper = "__esm" THEN "MODULE_FACTORY.__esm"
  ELSE IF helper = "__toESM" THEN "ADAPTED_IMPORT.__toESM"
  ELSE "REEXPORT.__copyProps"

\* What one declarator adds: <<helperSubtypes, factoryCategories>>
DeclContribution(d, helpers, stmtIndex) ==
  IF d.id.type = "Identifier" /\ HelperOf(helpers, d.id.names[1]) # ""
  THEN <<{HelperOf(helpers, d.id.names[1])}, {}>>
  ELSE IF stmtIndex < 10 /\ d.init.type = "MemberExpression"
          /\ d.init.member \in PreambleMembers
  THEN <<{"preamble"}, {}>>
  ELSE IF IsIdentifierCall(d.init) /\ HelperOf(helpers, d.init.callee) \in KnownHelpers
  THEN <<{}, {FactoryCategory(HelperOf(helpers, d.init.callee))}>>
  ELSE <<{}, {}>>

\* classifyNode: the category, as its prefix and the set of its "+"-joined parts
classifyNode(s, helpers, stmtIndex) ==
  IF s.type = "VariableDeclaration"
  THEN LET contrib == {DeclContribution(s.declarations[k], helpers, stmtIndex) :
                         k \in DOMAIN s.declarations}
           helperSubtypes == UNION {c[1] : c \in contrib}
           factoryCategories == UNION {c[2] : c \in contrib}
       IN IF helperSubtypes # {} THEN [prefix |-> "RUNTIME_HELPER", parts |-> helperSubtypes]
          ELSE IF factoryCategories # {} THEN [prefix |-> "", parts |-> factoryCategories]
          ELSE [prefix |-> "VAR_DECL", parts |-> {}]
  ELSE IF s.type = "FunctionDeclaration" THEN [prefix |-> "FUNCTION_DECL", parts |-> {}]
  ELSE IF s.type = "ClassDeclaration" THEN [prefix |-> "CLASS_DECL", parts |-> {}]
  ELSE IF s.type = "ExpressionStatement" THEN [prefix |-> "EXPRESSION", parts |-> {}]
  ELSE [prefix |-> s.type, parts |-> {}]

\* The part a sorted, "+"-joined category string starts with.
FirstPart(parts) ==
  IF "ADAPTED_IMPORT.__toESM" \in parts THEN "ADAPTED_IMPORT.__toESM"
  ELSE IF "MODULE_FACTORY.__commonJS" \in parts THEN "MODULE_FACTORY.__commonJS"
  ELSE IF "MODULE_FACTORY.__esm" \in parts THEN "MODULE_FACTORY.__esm"
  ELSE "REEXPORT.__copyProps"

classifyWrapKind(category) ==
  IF category.prefix = "RUNTIME_HELPER" THEN "RUNTIME"
  ELSE IF category.prefix # "" THEN "None"
  ELSE IF FirstPart(category.parts) = "MODULE_FACTORY.__commonJS" THEN "CJS"
  ELSE "ESM"

\* /* === [i] TYPE: .. | WRAPKIND: .. | NAME: .. | LINES: s-e | BYTES: n === */\n
Annotation(i, node, helpers) ==
  CommentChunk(<<"annotation", i, classifyNode(node.stmt, helpers, i),
                 classifyWrapKind(classifyNode(node.stmt, helpers, i)),
                 node.startLine, node.endLine, node.end - node.start>>, 2, 1)

\* Seeded fault: the gap before a statement is copied but not counted.
AnnotateStepGapUncounted(acc, i, body, helpers, text) ==
  LET node == body[i]
      gap == IF node.start > acc.lastEnd THEN Slice(text, acc.lastEnd, node.start)
             ELSE <<>>
      stmtCode == Slice(text, node.start, node.end)
  IN [out       |-> acc.out \o gap \o <<Annotation(i, node, helpers)>> \o stmtCode,
      lastEnd   |-> node.end,
      stmtBytes |-> acc.stmtBytes + SumLen(stmtCode),
      gapBytes  |-> acc.gapBytes]

\* One turn of the annotation loop on [out, lastEnd, stmtBytes, gapBytes].
AnnotateStep(acc, i, body, helpers, text) ==
  LET node == body[i]
      gap == IF node.start > acc.lastEnd THEN Slice(text, acc.lastEnd, node.start)
             ELSE <<>>
      stmtCode == Slice(text, node.start, node.end)
  IN [out       |-> acc.out \o gap \o <<Annotation(i, node, helpers)>> \o stmtCode,
      lastEnd   |-> node.end,
      stmtBytes |-> acc.stmtBytes + SumLen(stmtCode),
      gapBytes  |-> acc.gapBytes + SumLen(gap)]

RECURSIVE AnnotateFrom(_, _, _, _, _)
AnnotateFrom(acc, i, body, helpers, text) ==
  IF i >= NumStmts(body)
  THEN IF acc.lastEnd < SumLen(text)
       THEN [acc EXCEPT !.out = @ \o Slice(text, acc.lastEnd, SumLen(text)),
                        !.gapBytes = @ + SumLen(Slice(text, acc.lastEnd, SumLen(text)))]
       ELSE acc
  ELSE AnnotateFrom(AnnotateStep(acc, i, body, helpers, text), i + 1, body, helpers, text)

\* The annotation loop and the trailing content.
Annotate(sb, body, helpers, text) ==
  AnnotateFrom([out |-> sb, lastEnd |-> 0, stmtBytes |-> 0, gapBytes |-> 0],
               0, body, helpers, text)

\* The seven-line header comment and its newline.
HeaderComment(n) == CommentChunk(<<"header", n>>, 8, 7)

\* The header goes after the shebang, before the first annotation.
PrependHeader(out, sb, n) ==
  IF sb # <<>> THEN sb \o <<HeaderComment(n)>> \o SubSeq(out, Len(sb) + 1, Len(out))
  ELSE <<HeaderComment(n)>> \o out

\* ------------------------------------------------------------------------
\* Inputs
\* ------------------------------------------------------------------------

SegmentsCJS ==
  {<<HelperCJS>>, <<FactoryR, FactoryS>>, <<ImportX, ImportY>>, <<FuncF>>, <<UseRS>>,
   <<Use("R"), Use("S")>>}

SegmentsESM ==
  {<<HelperESM>>, <<FactoryM>>, <<VarA>>, <<VarA, VarB, FuncF>>, <<CallM>>}

SegmentsMixed ==
  {<<HelperCJS, HelperESM, HelperToESM>>, <<FactoryR>>, <<FactoryM>>, <<AdapterQ>>,
   <<VarA>>, <<FactoryAndHelper>>}

SegmentsText == {<<HelperCJS>>, <<FactoryR>>, <<VarA>>, <<FuncF>>}

SegmentsClassify ==
  {<<HelperCJS>>, <<HelperNamed>>, <<HelperESMMinified>>, <<Banner>>, <<VarA, VarB, FuncF>>,
   <<Alias("n", "getOwnPropertyNames")>>,
   <<Alias("c", "create"), Alias("p", "getPrototypeOf"), Alias("d", "defineProperty")>>}

RECURSIVE Flatten(_)
Flatten(segs) == IF segs = <<>> THEN <<>> ELSE Head(segs) \o Flatten(Tail(segs))

\* The statement lists made of at most MaxSegs segments of one family.
ListsOf(segments) == {Flatten(segs) : segs \in SeqsUpTo(segments, MaxSegs)}

\* A bundle on one line, and the same bundle with one statement per line.
Minified(stmts) == [k \in DOMAIN stmts |-> StmtChunk(stmts[k])]

RECURSIVE Lines(_)
Lines(stmts) ==
  IF stmts = <<>> THEN <<>>
  ELSE <<StmtChunk(Head(stmts)), NewlineChunk>> \o Lines(Tail(stmts))

\* The bundles the trace stage is run on.
TraceInputs ==
  {Lines(l) : l \in ListsOf(SegmentsCJS) \cup ListsOf(SegmentsESM) \cup ListsOf(SegmentsMixed)}

\* The bundles the classify stage is run on.
ClassifyInputs == {Lines(l) : l \in ListsOf(SegmentsClassify)}

\* The files either stage is run on, and run on again.
TextInputs ==
  {Minified(l) : l \in ListsOf(SegmentsText)}
    \cup {Lines(l) : l \in ListsOf(SegmentsText)}
    \cup {<<ShebangChunk>> \o Lines(l) : l \in ListsOf(SegmentsText)}

\* ------------------------------------------------------------------------
\* State
\* ------------------------------------------------------------------------

VARIABLES
  stage,           \* the program that runs: "classify" or "trace"
  run,             \* 1, or 2 when the program runs on its own output
  pc,              \* the section that runs next
  file,            \* the input file
  shebang,         \* the shebang line cut off the input, or <<>>
  code,            \* the body that is parsed
  ast,             \* ast.body
  runtimeHelpers,  \* name -> helper kind
  definedBy,       \* name -> statement index
  stmtDefs,        \* statement index -> names
  graph,           \* statement index -> [refs_out, refs_in]
  stmtInfo,        \* statement index -> [wrapKind, moduleId]
  modules,         \* the modules, in the order of the array
  nextModuleId,
  runs,            \* the runs of unassigned statements that Pass 5 clusters
  stats,           \* the classify stage's byte totals
  output,          \* the text that is written
  prevOutput       \* the text the first run wrote

vars ==
  <<stage, run, pc, file, shebang, code, ast, runtimeHelpers, definedBy, stmtDefs,
    graph, stmtInfo, modules, nextModuleId, runs, stats, output, prevOutput>>

NoStats ==
  [bundler |-> "", confidence |-> "", signals |-> 0,
   stmtBytes |-> 0, gapBytes |-> 0, match |-> FALSE]

Fresh ==
  /\ pc = "read"
  /\ shebang = <<>>
  /\ code = <<>>
  /\ ast = <<>>
  /\ runtimeHelpers = NoHelpers
  /\ definedBy = [n \in AllNames |-> -1]
  /\ stmtDefs = <<>>
  /\ graph = <<>>
  /\ stmtInfo = <<>>
  /\ modules = <<>>
  /\ nextModuleId = 0
  /\ runs = <<>>
  /\ stats = NoStats
  /\ output = <<>>

\* One run of demini-trace on a bundle.
Init ==
  /\ stage = "trace"
  /\ run = 1
  /\ file \in TraceInputs
  /\ prevOutput = <<>>
  /\ Fresh

\* One run of demini-classify on a bundle.
InitClassify ==
  /\ stage = "classify"
  /\ run = 1
  /\ file \in ClassifyInputs
  /\ prevOutput = <<>>
  /\ Fresh

\* Either program, which is then run again on the file it wrote.
InitRerun ==
  /\ stage \in {"classify", "trace"}
  /\ run = 1
  /\ file \in TextInputs
  /\ prevOutput = <<>>
  /\ Fresh

\* ------------------------------------------------------------------------
\* Sections common to both programs
\* ------------------------------------------------------------------------

\* Read the file, strip the shebang, parse the body.
ReadAndParse ==
  /\ pc = "read"
  /\ shebang' = ShebangOf(file)
  /\ code' = BodyOf(file)
  /\ ast' = Parse(BodyOf(file))
  /\ pc' = "helpers"
  /\ UNCHANGED <<stage, run, file, runtimeHelpers, definedBy, stmtDefs, graph,
                 stmtInfo, modules, nextModuleId, runs, stats, output, prevOutput>>

\* ------------------------------------------------------------------------
\* demini-trace
\* ------------------------------------------------------------------------

St == [info |-> stmtInfo, mods |-> modules, next |-> nextModuleId]

SetSt(r) ==
  /\ stmtInfo' = r.info
  /\ modules' = r.mods
  /\ nextModuleId' = r.next

TraceDetectHelpers ==
  /\ stage = "trace" /\ pc = "helpers"
  /\ runtimeHelpers' = TraceDetectRuntimeHelpers(ast)
  /\ pc' = "defmap"
  /\ UNCHANGED <<stage, run, file, shebang, code, ast, definedBy, stmtDefs, graph,
                 stmtInfo, modules, nextModuleId, runs, stats, output, prevOutput>>

TraceDefinitionMap ==
  /\ stage = "trace" /\ pc = "defmap"
  /\ definedBy' = BuildDefinedBy(ast)
  /\ stmtDefs' = BuildStmtDefs(ast)
  /\ pc' = "graph"
  /\ UNCHANGED <<stage, run, file, shebang, code, ast, runtimeHelpers, graph,
                 stmtInfo, modules, nextModuleId, runs, stats, output, prevOutput>>

TraceDependencies ==
  /\ stage = "trace" /\ pc = "graph"
  /\ graph' = BuildGraph(ast, definedBy)
  /\ pc' = "wrapkind"
  /\ UNCHANGED <<stage, run, file, shebang, code, ast, runtimeHelpers, definedBy,
                 stmtDefs, stmtInfo, modules, nextModuleId, runs, stats, output, prevOutput>>

TraceWrapKinds ==
  /\ stage = "trace" /\ pc = "wrapkind"
  /\ stmtInfo' = BuildStmtInfo(ast, runtimeHelpers)
  /\ pc' = "preamble"
  /\ UNCHANGED <<stage, run, file, shebang, code, ast, runtimeHelpers, definedBy,
                 stmtDefs, graph, modules, nextModuleId, runs, stats, output, prevOutput>>

TracePreamble ==
  /\ stage = "trace" /\ pc = "preamble"
  /\ stmtInfo' = PreambleExtension(stmtInfo)
  /\ pc' = "pass1"
  /\ UNCHANGED <<stage, run, file, shebang, code, ast, runtimeHelpers, definedBy,
                 stmtDefs, graph, modules, nextModuleId, runs, stats, output, prevOutput>>

TracePass1 ==
  /\ stage = "trace" /\ pc = "pass1"
  /\ SetSt(Pass1(St))
  /\ pc' = "pass2"
  /\ UNCHANGED <<stage, run, file, shebang, code, ast, runtimeHelpers, definedBy,
                 stmtDefs, graph, runs, stats, output, prevOutput>>

TracePass2 ==
  /\ stage = "trace" /\ pc = "pass2"
  /\ SetSt(Pass2(St))
  /\ pc' = "pass3"
  /\ UNCHANGED <<stage, run, file, shebang, code, ast, runtimeHelpers, definedBy,
                 stmtDefs, graph, runs, stats, output, prevOutput>>

TracePass3 ==
  /\ stage = "trace" /\ pc = "pass3"
  /\ SetSt(Pass3(St, ast, runtimeHelpers))
  /\ pc' = "pass4"
  /\ UNCHANGED <<stage, run, file, shebang, code, ast, runtimeHelpers, definedBy,
                 stmtDefs, graph, runs, stats, output, prevOutput>>

TracePass4 ==
  /\ stage = "trace" /\ pc = "pass4"
  /\ SetSt(Pass4(St, ast, stmtDefs))
  /\ pc' = "pass5"
  /\ UNCHANGED <<stage, run, file, shebang, code, ast, runtimeHelpers, definedBy,
                 stmtDefs, graph, runs, stats, output, prevOutput>>

TracePass5 ==
  /\ stage = "trace" /\ pc = "pass5"
  /\ runs' = SplitRuns(stmtInfo)
  /\ SetSt(Pass5(St, graph))
  /\ pc' = "renumber"
  /\ UNCHANGED <<stage, run, file, shebang, code, ast, runtimeHelpers, definedBy,
                 stmtDefs, graph, stats, output, prevOutput>>

\* Seeded fault: the ids follow either the source order or the order in which
\* the passes happened to create the modules.
TraceRenumberEitherOrder ==
  /\ stage = "trace" /\ pc = "renumber"
  /\ \E sorted \in BOOLEAN : SetSt(IF sorted THEN Renumber(St) ELSE RenumberUnsorted(St))
  /\ pc' = "deps"
  /\ UNCHANGED <<stage, run, file, shebang, code, ast, runtimeHelpers, definedBy,
                 stmtDefs, graph, runs, stats, output, prevOutput>>

TraceRenumber ==
  /\ stage = "trace" /\ pc = "renumber"
  /\ SetSt(Renumber(St))
  /\ pc' = "deps"
  /\ UNCHANGED <<stage, run, file, shebang, code, ast, runtimeHelpers, definedBy,
                 stmtDefs, graph, runs, stats, output, prevOutput>>

TraceModuleDeps ==
  /\ stage = "trace" /\ pc = "deps"
  /\ modules' = CompileModules(modules, stmtInfo, graph, ast)
  /\ pc' = "output"
  /\ UNCHANGED <<stage, run, file, shebang, code, ast, runtimeHelpers, definedBy,
                 stmtDefs, graph, stmtInfo, nextModuleId, runs, stats, output, prevOutput>>

TraceWriteOutput ==
  /\ stage = "trace" /\ pc = "output"
  /\ output' = TraceOutput(shebang, ast, modules, code)
  /\ pc' = "done"
  /\ UNCHANGED <<stage, run, file, shebang, code, ast, runtimeHelpers, definedBy,
                 stmtDefs, graph, stmtInfo, modules, nextModuleId, runs, stats, prevOutput>>

\* ------------------------------------------------------------------------
\* demini-classify
\* ------------------------------------------------------------------------

ClassifyDetectHelpers ==
  /\ stage = "classify" /\ pc = "helpers"
  /\ runtimeHelpers' = ClassifyDetectRuntimeHelpers(ast)
  /\ LET bundleType == detectBundleType(ast, ClassifyDetectRuntimeHelpers(ast))
     IN stats' = [stats EXCEPT !.bundler = bundleType.bundler,
                               !.confidence = bundleType.confidence,
                               !.signals = bundleType.signals]
  /\ pc' = "annotate"
  /\ UNCHANGED <<stage, run, file, shebang, code, ast, definedBy, stmtDefs, graph,
                 stmtInfo, modules, nextModuleId, runs, output, prevOutput>>

ClassifyAnnotate ==
  /\ stage = "classify" /\ pc = "annotate"
  /\ LET acc == Annotate(shebang, ast, runtimeHelpers, code)
     IN /\ output' = acc.out
        /\ stats' = [stats EXCEPT !.stmtBytes = acc.stmtBytes, !.gapBytes = acc.gapBytes]
  /\ pc' = "header"
  /\ UNCHANGED <<stage, run, file, shebang, code, ast, runtimeHelpers, definedBy,
                 stmtDefs, graph, stmtInfo, modules, nextModuleId, runs, prevOutput>>

ClassifyHeader ==
  /\ stage = "classify" /\ pc = "header"
  /\ output' = PrependHeader(output, shebang, NumStmts(ast))
  /\ pc' = "account"
  /\ UNCHANGED <<stage, run, file, shebang, code, ast, runtimeHelpers, definedBy,
                 stmtDefs, graph, stmtInfo, modules, nextModuleId, runs, stats, prevOutput>>

\* Byte accounting, then both files are written.
ClassifyAccountAndWrite ==
  /\ stage = "classify" /\ pc = "account"
  /\ stats' = [stats EXCEPT !.match = (stats.stmtBytes + stats.gapBytes = SumLen(code))]
  /\ pc' = "done"
  /\ UNCHANGED <<stage, run, file, shebang, code, ast, runtimeHelpers, definedBy,
                 stmtDefs, graph, stmtInfo, modules, nextModuleId, runs, output, prevOutput>>

\* ------------------------------------------------------------------------
\* The same program is run again, on the file it has just written.
\* ------------------------------------------------------------------------

Rerun ==
  /\ pc = "done" /\ run = 1
  /\ run' = 2
  /\ file' = output
  /\ prevOutput' = output
  /\ pc' = "read"
  /\ shebang' = <<>>
  /\ code' = <<>>
  /\ ast' = <<>>
  /\ runtimeHelpers' = NoHelpers
  /\ definedBy' = [n \in AllNames |-> -1]
  /\ stmtDefs' = <<>>
  /\ graph' = <<>>
  /\ stmtInfo' = <<>>
  /\ modules' = <<>>
  /\ nextModuleId' = 0
  /\ runs' = <<>>
  /\ stats' = NoStats
  /\ output' = <<>>
  /\ UNCHANGED stage

\* ------------------------------------------------------------------------
\* Properties of module identification (demini-trace)
\* ------------------------------------------------------------------------

\* Module identification, renumbering included, has finished.
Identified == stage = "trace" /\ pc \in {"deps", "output", "done"}

ModulesOf(i) == {k \in DOMAIN modules : i \in Range(modules[k].statements)}

Occurrences(seq, x) == Cardinality({p \in DOMAIN seq : seq[p] = x})

WrapKindsPresent == {modules[k].wrapKind : k \in DOMAIN modules}

Prelim(i) == classifyStmtWrapKind(ast[i].stmt, runtimeHelpers)

\* Statement i calls a detected __esm helper and the None statements right
\* before it are exactly three.
EsmFactoryAfterThree(i) ==
  /\ i >= 3
  /\ IsEsmFactory(ast[i].stmt, runtimeHelpers)
  /\ \A j \in (i - 3)..(i - 1) : Prelim(j) = "None"
  /\ i >= 4 => Prelim(i - 4) # "None"

\* One ESM module lists the three statements and then the factory i.
BackTraced(i) ==
  /\ \E k \in DOMAIN modules :
       /\ modules[k].wrapKind = "ESM"
       /\ modules[k].statements = <<i - 3, i - 2, i - 1, i>>
       /\ modules[k].primary = i
  /\ \A j \in (i - 3)..(i - 1) : stmtInfo[j].wrapKind = "ESM"

\* C2 as stated: for every input, an ESM factory statement right after three
\* None statements ends in one ESM module of those three and the factory,
\* primary the factory, the three reclassified to ESM.
C2_AsStated ==
  Identified => \A i \in DOMAIN ast : EsmFactoryAfterThree(i) => BackTraced(i)

\* C2 (ESM back-trace), amended: the same outcome whenever the factory
\* statement's preliminary WrapKind is ESM and a statement of preliminary
\* WrapKind CJS or ESM stands before the three None statements, so that the
\* preamble extension leaves them alone.
C2_BackTrace ==
  Identified =>
    \A i \in DOMAIN ast :
      (/\ EsmFactoryAfterThree(i)
       /\ Prelim(i) = "ESM"
       /\ \E j \in DOMAIN ast : j < i - 3 /\ Prelim(j) \in {"CJS", "ESM"})
        => BackTraced(i)

\* An ESM factory after three None statements that follow an earlier factory.
C2_Witness ==
  /\ Identified
  /\ \E i \in DOMAIN ast :
       /\ EsmFactoryAfterThree(i)
       /\ Prelim(i) = "ESM"
       /\ \E j \in DOMAIN ast : j < i - 3 /\ Prelim(j) \in {"CJS", "ESM"}

\* The positions of run r that hold IMPORT statements, and the statements of
\* r at a set of positions.
ImportPositions(r) == {p \in DOMAIN r : stmtInfo[r[p]].wrapKind = "IMPORT"}

StatementsAt(r, P) == {r[p] : p \in P}

ModuleKindOf(i) == {modules[k].wrapKind : k \in ModulesOf(i)}

\* Run r is a block of IMPORT statements, each calling a factory name of an
\* earlier CJS module, followed by consumers that reference names defined by
\* the block and nothing else.
ImportsThenConsumers(r) ==
  LET B == ImportPositions(r)
      block == StatementsAt(r, B)
  IN /\ B # {}
     /\ B = 1..Cardinality(B)
     /\ Cardinality(B) < Len(r)
     /\ \A i \in block :
          \E j \in graph[i].refs_out : j < i /\ ModuleKindOf(j) = {"CJS"}
     /\ \A i \in Range(r) \ block :
          graph[i].refs_out # {} /\ graph[i].refs_out \subseteq block

HasModule(kind, stmts) ==
  \E k \in DOMAIN modules :
    modules[k].wrapKind = kind /\ modules[k].statements = stmts

C7_AsStated ==
  (Identified /\ runtimeHelpers = NoHelpers) =>
    /\ Len(modules) = NumStmts(ast)
    /\ \A k \in DOMAIN modules : Len(modules[k].statements) = 1

\* The statements that end with WrapKind RUNTIME, and the RUNTIME modules.
RuntimeStatements == {i \in DOMAIN stmtInfo : stmtInfo[i].wrapKind = "RUNTIME"}

RuntimeModules == {k \in DOMAIN modules : modules[k].wrapKind = "RUNTIME"}

\* The first statement of preliminary WrapKind CJS or ESM is statement f.
IsFirstFactory(f) ==
  /\ f \in DOMAIN ast
  /\ Prelim(f) \in {"CJS", "ESM"}
  /\ \A j \in DOMAIN ast : j < f => Prelim(j) \notin {"CJS", "ESM"}

\* C11 as stated: whenever some statement ends RUNTIME, one module holds all
\* RUNTIME statements and its id is 0; and when None statements stand before
\* the first factory, the first factory's module has id 1.
C11_AsStated ==
  (Identified /\ RuntimeStatements # {}) =>
    /\ \E k \in DOMAIN modules :
         /\ RuntimeModules = {k}
         /\ Range(modules[k].statements) = RuntimeStatements
         /\ modules[k].id = 0
    /\ \A f \in DOMAIN ast :
         (IsFirstFactory(f) /\ \E j \in DOMAIN ast : j < f /\ Prelim(j) = "None")
           => stmtInfo[f].moduleId = 1

\* C11 (RUNTIME module), amended: whenever some statement ends RUNTIME, one
\* module holds exactly the RUNTIME statements; its id is 0 when statement 0
\* ends RUNTIME; and the first factory's module has id 1 when the first
\* factory is not statement 0 and every statement before it ends RUNTIME.
C11_RuntimeModule ==
  (Identified /\ RuntimeStatements # {}) =>
    /\ \E k \in DOMAIN modules :
         /\ RuntimeModules = {k}
         /\ Range(modules[k].statements) = RuntimeStatements
         /\ 0 \in RuntimeStatements => modules[k].id = 0
    /\ \A f \in DOMAIN ast :
         (IsFirstFactory(f) /\ f > 0 /\ \A j \in DOMAIN ast : j < f => j \in RuntimeStatements)
           => stmtInfo[f].moduleId = 1

\* Preamble statements and a helper before the first factory, another helper
\* after it: the RUNTIME module is scattered, has id 0, the factory id 1.
C11_Witness ==
  /\ Identified
  /\ 0 \in RuntimeStatements
  /\ \E f \in DOMAIN ast :
       /\ IsFirstFactory(f) /\ f >= 2
       /\ \A j \in DOMAIN ast : j < f => j \in RuntimeStatements
       /\ \E j \in DOMAIN ast : j < f /\ Prelim(j) = "None"
       /\ \E j \in RuntimeStatements : j > f

Contiguous(seq) == \A p \in 1..(Len(seq) - 1) : seq[p + 1] = seq[p] + 1

\* C4 (contiguity): the statement list of every module whose WrapKind is not
\* RUNTIME is a run of consecutive indices in ascending order.
C4_Contiguity ==
  Identified =>
    \A k \in DOMAIN modules :
      modules[k].wrapKind # "RUNTIME" => Contiguous(modules[k].statements)

\* A module of three or more statements next to a RUNTIME module whose
\* statements are scattered.
C4_Witness ==
  /\ Identified
  /\ \E k \in DOMAIN modules :
       modules[k].wrapKind # "RUNTIME" /\ Len(modules[k].statements) >= 3
  /\ \E k \in DOMAIN modules :
       modules[k].wrapKind = "RUNTIME" /\ ~Contiguous(modules[k].statements)

\* C5 (dense ids): after renumbering the ids are exactly 0..M-1, one module
\* each; module a has a smaller id than module b exactly when a's smallest
\* statement index is the smaller one; and every statement carries the id of
\* the module that lists it.
C5_DenseIds ==
  Identified =>
    /\ {modules[k].id : k \in DOMAIN modules} = 0..(Len(modules) - 1)
    /\ \A a, b \in DOMAIN modules :
         /\ (modules[a].id = modules[b].id) => a = b
         /\ (modules[a].id < modules[b].id) <=> (MinStmt(modules[a]) < MinStmt(modules[b]))
    /\ \A k \in DOMAIN modules :
         \A i \in Range(modules[k].statements) : stmtInfo[i].moduleId = modules[k].id

\* A module made by the clustering pass (the last pass) that precedes, in the
\* source and hence in id, a factory module made by an earlier pass.
C5_Witness ==
  /\ Identified
  /\ \E a, b \in DOMAIN modules :
       /\ modules[a].wrapKind \in {"None", "IMPORT"}
       /\ modules[b].wrapKind \in {"CJS", "ESM"}
       /\ modules[a].id < modules[b].id

\* C8 (symmetry): statement j is in refs_out of statement i exactly when i is
\* in refs_in of j; and once the module dependencies are computed, module n is
\* in deps_out of module m exactly when m is in deps_in of n.
C8_Symmetry ==
  /\ \A i, j \in DOMAIN graph : (j \in graph[i].refs_out) <=> (i \in graph[j].refs_in)
  /\ (stage = "trace" /\ pc \in {"output", "done"}) =>
       \A a, b \in DOMAIN modules :
         (modules[b].id \in modules[a].deps_out) <=> (modules[a].id \in modules[b].deps_in)

\* A finished run with a statement that references two others and a module
\* that depends on another.
C8_Witness ==
  /\ stage = "trace" /\ pc = "done"
  /\ \E i \in DOMAIN graph : Cardinality(graph[i].refs_out) >= 2
  /\ \E a \in DOMAIN modules : modules[a].deps_out # {}

\* C9 (no self-loops): no statement is in its own refs_out or refs_in, and no
\* module id is in that module's own deps_out or deps_in.
C9_NoSelfLoops ==
  /\ \A i \in DOMAIN graph : i \notin graph[i].refs_out \cup graph[i].refs_in
  /\ \A k \in DOMAIN modules :
       modules[k].id \notin modules[k].deps_out \cup modules[k].deps_in

\* A statement that mentions a name it defines, and a module two of whose
\* statements reference each other.
C9_Witness ==
  /\ stage = "trace" /\ pc = "done"
  /\ \E i \in DOMAIN ast :
       /\ Range(ast[i].stmt.ids) \cap Range(stmtDefs[i]) # {}
       /\ definedBy[stmtDefs[i][1]] = i
  /\ \E k \in DOMAIN modules :
       \E i, j \in Range(modules[k].statements) : j \in graph[i].refs_out


\* ------------------------------------------------------------------------
\* Properties of the written files (both stages)
\* ------------------------------------------------------------------------

RECURSIVE StripComments(_)
StripComments(text) ==
  IF text = <<>> THEN <<>>
  ELSE (IF Head(text).k = "cmt" THEN <<>> ELSE <<Head(text)>>) \o StripComments(Tail(text))

\* The comments of a text with the offsets they stand at.
CommentsAt(text) ==
  {<<OffsetOf(text, p), text[p].tag>> : p \in {p \in DOMAIN text : text[p].k = "cmt"}}

\* C6 as stated: the output of a stage, with the comments removed, is the
\* stage's input (here the first run, whose input holds no comment).
C6_AsStated == (pc = "done" /\ run = 1) => StripComments(output) = file

\* C10 as stated: run on its own output, a stage writes the comments of that
\* output again, each at its offset, and no other comment.
C10_AsStated == (pc = "done" /\ run = 2) => CommentsAt(output) = CommentsAt(prevOutput)

\* C12 (byte accounting): once the annotation loop of the classify stage has
\* run, statement bytes plus gap bytes (the trailing gap included) equal the
\* length of the body; and the match flag written with the stats is true
\* exactly when they do.
C12_Accounting ==
  /\ (stage = "classify" /\ pc \in {"header", "account", "done"}) =>
       stats.stmtBytes + stats.gapBytes = SumLen(code)
  /\ (stage = "classify" /\ pc = "done") =>
       (stats.match <=> (stats.stmtBytes + stats.gapBytes = SumLen(code)))

\* A finished classify run on a body whose first statement starts at offset
\* 0 and which holds gaps.
C12_Witness ==
  /\ stage = "classify" /\ pc = "done"
  /\ NumStmts(ast) >= 2
  /\ ast[0].start = 0
  /\ stats.gapBytes > 0
  /\ stats.match

\* What demini-trace computes from the bytes of a file f, and what
\* demini-classify writes for them.
TraceAnalysis(f) ==
  LET body == Parse(BodyOf(f))
      helpers == TraceDetectRuntimeHelpers(body)
      g == BuildGraph(body, BuildDefinedBy(body))
      info == PreambleExtension(BuildStmtInfo(body, helpers))
      p3 == Pass3(Pass2(Pass1([info |-> info, mods |-> <<>>, next |-> 0])), body, helpers)
      p5 == Renumber(Pass5(Pass4(p3, body, BuildStmtDefs(body)), g))
      mods == CompileModules(p5.mods, p5.info, g, body)
  IN [stmtInfo |-> p5.info, modules |-> mods, graph |-> g,
      output |-> TraceOutput(ShebangOf(f), body, mods, BodyOf(f))]

ClassifyOutput(f) ==
  LET body == Parse(BodyOf(f))
  IN PrependHeader(Annotate(ShebangOf(f), body, ClassifyDetectRuntimeHelpers(body),
                            BodyOf(f)).out,
                   ShebangOf(f), NumStmts(body))

HelperKindsPresent == {runtimeHelpers[n] : n \in AllNames} \ {""}

PreambleSignal ==
  Cardinality({i \in DOMAIN ast : i < 5 /\ HasPreamblePattern(ast[i].stmt)}) >= 3

BannerSignal ==
  /\ \E i \in DOMAIN ast : "createRequire" \in Mentions(ast[i].stmt)
  /\ \E i \in DOMAIN ast : "import.meta.url" \in Mentions(ast[i].stmt)

SignalCount ==
  Cardinality(HelperKindsPresent) + (IF PreambleSignal THEN 1 ELSE 0)
    + (IF BannerSignal THEN 1 ELSE 0)

\* C15 (bundler fingerprint): the number of signals is the number of helper
\* kinds present, plus one for the preamble iff at least three of the first
\* five statements hold an Object.* pattern, plus one for the banner; two or
\* more signals give (esbuild, high), one gives (esbuild, medium), none gives
\* (unknown, low).
C15_Fingerprint ==
  (stage = "classify" /\ pc \in {"annotate", "header", "account", "done"}) =>
    /\ stats.signals = SignalCount
    /\ SignalCount >= 2 => stats.bundler = "esbuild" /\ stats.confidence = "high"
    /\ SignalCount = 1 => stats.bundler = "esbuild" /\ stats.confidence = "medium"
    /\ SignalCount = 0 => stats.bundler = "unknown" /\ stats.confidence = "low"

\* Two names map to the same helper kind and make one signal; Object.*
\* patterns occur, but fewer than three of them in the first five statements.
C15_Witness ==
  /\ stage = "classify" /\ pc = "done"
  /\ Cardinality({n \in AllNames : runtimeHelpers[n] = "__commonJS"}) = 2
  /\ \E i \in DOMAIN ast : HasPreamblePattern(ast[i].stmt)
  /\ ~PreambleSignal
  /\ stats.confidence = "medium"

\* C16 as stated (no factory, no preamble): when no statement is preliminarily
\* CJS or ESM, the preamble extension changes nothing, so the statements that
\* are preliminarily None are still None when Pass 1 starts.
C16_AsStated ==
  (stage = "trace" /\ pc = "pass1"
     /\ \A i \in DOMAIN ast : Prelim(i) \notin {"CJS", "ESM"}) =>
    \A i \in DOMAIN ast : Prelim(i) = "None" => stmtInfo[i].wrapKind = "None"

\* The statements that bind the top-level name n.
Binders(n) == {i \in DOMAIN ast : n \in Range(stmtDefs[i])}

\* C17 as stated (first definition wins): a name bound by several statements
\* is recorded with the first of them, every statement that mentions the name
\* without binding it has an edge to that first statement, and it has an edge
\* to a later binder only on account of a name first bound there.
C17_AsStated ==
  (stage = "trace" /\ pc = "done") =>
    \A n \in AllNames :
      Cardinality(Binders(n)) >= 2 =>
        /\ definedBy[n] = MinOf(Binders(n))
        /\ \A j \in DOMAIN ast \ Binders(n) :
             n \in Range(ast[j].stmt.ids) =>
               /\ MinOf(Binders(n)) \in graph[j].refs_out
               /\ \A k \in Binders(n) \cap graph[j].refs_out :
                    \/ k = MinOf(Binders(n))
                    \/ \E m \in Range(ast[j].stmt.ids) :
                         Binders(m) # {} /\ k = MinOf(Binders(m))

\* C18 as stated (IMPORT comes from Pass 4 only): the preliminary
\* classification of no statement is IMPORT, and a statement that ends IMPORT
\* was preliminarily None and invokes a name defined by a CJS or ESM module.
C18_AsStated ==
  (stage = "trace" /\ pc = "done") =>
    \A i \in DOMAIN ast :
      /\ Prelim(i) # "IMPORT"
      /\ stmtInfo[i].wrapKind = "IMPORT" =>
           /\ Prelim(i) = "None"
           /\ IsBareInvocation(ast[i].stmt, FactoryNames(modules, stmtDefs))

\* Statement i is an adapter call: a declaration with an initializer that
\* calls a detected __toESM or __copyProps helper, that calls no __esm helper
\* and is neither a helper definition nor a CJS factory.
IsAdapterCall(i) ==
  /\ ast[i].stmt.type = "VariableDeclaration"
  /\ \E k \in DOMAIN ast[i].stmt.declarations :
       LET init == ast[i].stmt.declarations[k].init
       IN /\ IsIdentifierCall(init)
          /\ init.callee \in AllNames
          /\ runtimeHelpers[init.callee] \in {"__toESM", "__copyProps"}
  /\ ~IsEsmFactory(ast[i].stmt, runtimeHelpers)
  /\ Prelim(i) \notin {"RUNTIME", "CJS"}

\* C19 as stated (adapter micro-modules): every adapter call ends with
\* WrapKind ESM as the only statement of an ESM module.
C19_AsStated ==
  (stage = "trace" /\ pc = "done") =>
    \A i \in DOMAIN ast :
      IsAdapterCall(i) =>
        /\ stmtInfo[i].wrapKind = "ESM"
        /\ \E k \in DOMAIN modules :
             modules[k].wrapKind = "ESM" /\ modules[k].statements = <<i>>

\* Pass 5 has just run: stmtInfo and modules carry the ids before renumbering
\* and runs holds the unassigned runs Pass 5 was given.
Clustered == stage = "trace" /\ pc = "renumber"

InRun(r, i) == i \in Range(runs[r])

\* Statements i and i + 1 stand in the same run.
Adjacent(i) == \E r \in DOMAIN runs : InRun(r, i) /\ InRun(r, i + 1)

\* The fingerprint of statement i when its run was processed: the modules of
\* the statements it references that were assigned before that run.
FingerprintAt(i) ==
  {stmtInfo[d].moduleId :
     d \in {d \in graph[i].refs_out :
              \A r \in DOMAIN runs, q \in DOMAIN runs :
                (InRun(r, i) /\ q >= r) => ~InRun(q, d)}}

\* The element of statement i: its block of consecutive IMPORT statements of
\* the run, or the statement alone.
ElementOf(i) ==
  IF stmtInfo[i].wrapKind # "IMPORT" THEN {i}
  ELSE {j \in DOMAIN ast :
          /\ \E r \in DOMAIN runs : InRun(r, i) /\ InRun(r, j)
          /\ \A m \in MinOf({i, j})..MaxOf({i, j}) : stmtInfo[m].wrapKind = "IMPORT"}

ElementFingerprint(i) == UNION {FingerprintAt(j) : j \in ElementOf(i)}

\* The cluster as it stands after the element of statement i has joined it.
ClusterUpTo(i) ==
  {j \in DOMAIN ast :
     /\ j <= i
     /\ \E r \in DOMAIN runs : InRun(r, i) /\ InRun(r, j)
     /\ stmtInfo[j].moduleId = stmtInfo[i].moduleId}

\* Jaccard(a, b) >= 0.5, with Jaccard 1 for two empty sets
Similar(a, b) ==
  \/ a = {} /\ b = {}
  \/ a \cup b # {} /\ 2 * Cardinality(a \cap b) >= Cardinality(a \cup b)

\* Statement i ends an element and statement i + 1 starts the next one.
ElementBorder(i) == Adjacent(i) /\ (i + 1) \notin ElementOf(i)

\* The rule of Pass 5: the next element joins the cluster exactly when it is
\* similar to the merged fingerprint of the cluster.
JoinRule ==
  \A i \in DOMAIN ast :
    ElementBorder(i) =>
      ((stmtInfo[i + 1].moduleId = stmtInfo[i].moduleId)
         <=> Similar(UNION {FingerprintAt(j) : j \in ClusterUpTo(i)},
                     ElementFingerprint(i + 1)))

DisjointFingerprints(i) ==
  /\ ElementFingerprint(i) # {}
  /\ ElementFingerprint(i + 1) # {}
  /\ ElementFingerprint(i) \cap ElementFingerprint(i + 1) = {}

\* C20 as stated: the rule of Pass 5, and any two consecutive elements with
\* disjoint non-empty fingerprints end in different modules.
C20_AsStated ==
  Clustered =>
    /\ JoinRule
    /\ \A i \in DOMAIN ast :
         (ElementBorder(i) /\ DisjointFingerprints(i))
           => stmtInfo[i + 1].moduleId # stmtInfo[i].moduleId

\* C20 (Pass 5 clustering), amended: the rule of Pass 5; two consecutive
\* elements with disjoint non-empty fingerprints end in different modules
\* when the cluster of the first holds no element before it.
C20_Clustering ==
  Clustered =>
    /\ JoinRule
    /\ \A i \in DOMAIN ast :
         (ElementBorder(i) /\ DisjointFingerprints(i) /\ ClusterUpTo(i) = ElementOf(i))
           => stmtInfo[i + 1].moduleId # stmtInfo[i].moduleId

\* Two consecutive elements with disjoint non-empty fingerprints, the first
\* alone in its cluster, have been put into different modules.
C20_Witness ==
  /\ Clustered
  /\ \E i \in DOMAIN ast :
       /\ ElementBorder(i) /\ DisjointFingerprints(i)
       /\ ClusterUpTo(i) = ElementOf(i)
       /\ stmtInfo[i + 1].moduleId # stmtInfo[i].moduleId

\* Statement i is an __esm factory statement: its preliminary WrapKind is ESM.
EsmFactoryStatements(mod) == {i \in Range(mod.statements) : Prelim(i) = "ESM"}

DefinesAndCallsHelper(i) ==
  /\ ast[i].stmt.type = "VariableDeclaration"
  /\ \E k \in DOMAIN ast[i].stmt.declarations :
       LET d == ast[i].stmt.declarations[k]
       IN d.id.type = "Identifier" /\ HelperOf(runtimeHelpers, d.id.names[1]) # ""
  /\ \E k \in DOMAIN ast[i].stmt.declarations :
       LET d == ast[i].stmt.declarations[k]
       IN IsIdentifierCall(d.init) /\ HelperOf(runtimeHelpers, d.init.callee) # ""

\* C22 as stated, for the trace stage (helper definition wins): a statement
\* that both defines and calls a detected helper has WrapKind RUNTIME and
\* stands in the RUNTIME module, whatever the order of its declarators.
C22_AsStated ==
  Identified =>
    \A i \in DOMAIN ast :
      DefinesAndCallsHelper(i) =>
        /\ stmtInfo[i].wrapKind = "RUNTIME"
        /\ \A k \in ModulesOf(i) : modules[k].wrapKind = "RUNTIME"

\* C23 as stated (one helper detector): the helper map the classify stage has
\* computed is the map the detector of the trace stage computes on the same
\* statements.
C23_AsStated ==
  (stage = "classify" /\ pc \in {"annotate", "header", "account", "done"}) =>
    runtimeHelpers = TraceDetectRuntimeHelpers(ast)

\* C24 (frame of Pass 4): the step of Pass 4 leaves every module id, the
\* module list and the next module id as they were, and changes the WrapKind
\* of a statement only if the statement is unassigned, and only from None to
\* IMPORT.
C24_Pass4Frame ==
  [][(stage = "trace" /\ pc = "pass4") =>
       /\ modules' = modules
       /\ nextModuleId' = nextModuleId
       /\ \A i \in DOMAIN stmtInfo :
            /\ stmtInfo'[i].moduleId = stmtInfo[i].moduleId
            /\ stmtInfo'[i].wrapKind # stmtInfo[i].wrapKind =>
                 /\ stmtInfo[i].moduleId = -1
                 /\ stmtInfo[i].wrapKind = "None"
                 /\ stmtInfo'[i].wrapKind = "IMPORT"]_vars

\* Pass 4 has run where a RUNTIME statement invokes a factory and stays as it
\* is, while an unassigned statement that invokes a factory has become IMPORT.
C24_Witness ==
  /\ stage = "trace" /\ pc = "pass5"
  /\ \E i \in DOMAIN ast :
       /\ stmtInfo[i].wrapKind = "RUNTIME" /\ stmtInfo[i].moduleId # -1
       /\ IsBareInvocation(ast[i].stmt, FactoryNames(modules, stmtDefs))
  /\ \E i \in DOMAIN ast :
       /\ stmtInfo[i].wrapKind = "IMPORT" /\ stmtInfo[i].moduleId = -1
       /\ Prelim(i) = "None"

\* The position in text of the chunk of statement i.
StmtPosition(text, i) ==
  CHOOSE p \in DOMAIN text :
    /\ text[p].k = "stmt"
    /\ Cardinality({q \in 1..(p - 1) : text[q].k = "stmt"}) = i

\* C25 as stated (gap, then boundary, then statement): in the traced output
\* the boundary comment of a module stands right before the module's first
\* statement, after the gap that precedes the statement.
C25_AsStated ==
  (stage = "trace" /\ pc = "done") =>
    \A i \in DOMAIN ast :
      StartsModule(modules, i) =>
        LET p == StmtPosition(output, i)
        IN /\ p > 1
           /\ output[p - 1].k = "cmt"
           /\ output[p - 1].tag[1] = "boundary"

\* The sections of the trace run that write stmtInfo before the renumbering.
BeforeRenumbering ==
  stage = "trace" /\ pc \in {"preamble", "pass1", "pass2", "pass3", "pass4", "pass5"}

\* A step changes the WrapKind of a statement only away from None, and to
\* what the section that runs may give it.
WrapKindStep ==
  \A i \in DOMAIN stmtInfo :
    stmtInfo'[i].wrapKind # stmtInfo[i].wrapKind =>
      /\ stmtInfo[i].wrapKind = "None"
      /\ \/ pc = "preamble" /\ stmtInfo'[i].wrapKind = "RUNTIME"
         \/ pc = "pass3" /\ stmtInfo'[i].wrapKind = "ESM"
         \/ pc = "pass4" /\ stmtInfo'[i].wrapKind = "IMPORT"

\* A step changes the module id of a statement only from unassigned to
\* assigned, and keeps the modules it found.
AssignStep ==
  /\ \A i \in DOMAIN stmtInfo :
       stmtInfo'[i].moduleId # stmtInfo[i].moduleId =>
         stmtInfo[i].moduleId = -1 /\ stmtInfo'[i].moduleId # -1
  /\ Len(modules') >= Len(modules)
  /\ SubSeq(modules', 1, Len(modules)) = modules

\* C26 (one change per statement): before the renumbering every step changes
\* a WrapKind only away from None (to RUNTIME in the preamble extension, to
\* ESM in Pass 3, to IMPORT in Pass 4) and a module id only from unassigned to
\* assigned; and when Pass 5 is over every statement is assigned and the ids
\* of the modules are pairwise distinct.
C26_ChangeOnce ==
  /\ [][BeforeRenumbering => (WrapKindStep /\ AssignStep)]_vars
  /\ []((stage = "trace" /\ pc = "renumber") =>
          /\ \A i \in DOMAIN stmtInfo : stmtInfo[i].moduleId # -1
          /\ \A k, l \in DOMAIN modules : modules[k].id = modules[l].id => k = l)

\* Pass 5 is over on an input where the preamble extension and Pass 4 have
\* each changed a WrapKind and the passes have made at least three modules.
C26_Witness ==
  /\ stage = "trace" /\ pc = "renumber"
  /\ \E i \in DOMAIN ast : Prelim(i) = "None" /\ stmtInfo[i].wrapKind = "RUNTIME"
  /\ \E i \in DOMAIN ast : Prelim(i) = "None" /\ stmtInfo[i].wrapKind = "IMPORT"
  /\ Len(modules) >= 3

\* The statements whose preliminary WrapKind is CJS or ESM.
Factories == {i \in DOMAIN ast : Prelim(i) \in {"CJS", "ESM"}}

\* C27 (nothing to absorb before the first factory): with F the first CJS/ESM
\* statement, no statement before F is None from the start of Pass 1 to the
\* start of Pass 3; in the result, if F is an __esm factory its module holds
\* F alone, and every statement before F stands in the RUNTIME module or, when
\* it was not preliminarily None, in a module made by Pass 5.
C27_PreambleBeforePass3 ==
  Factories # {} =>
    LET F == MinOf(Factories)
    IN /\ (stage = "trace" /\ pc \in {"pass1", "pass2", "pass3"}) =>
            \A i \in DOMAIN ast : i < F => stmtInfo[i].wrapKind # "None"
       /\ Identified =>
            /\ Prelim(F) = "ESM" =>
                 \A k \in ModulesOf(F) : modules[k].statements = <<F>>
            /\ \A i \in DOMAIN ast :
                 i < F =>
                   \A k \in ModulesOf(i) :
                     \/ modules[k].wrapKind = "RUNTIME"
                     \/ Prelim(i) # "None" /\ modules[k].wrapKind \in {"IMPORT", "None"}

\* The first factory is an __esm factory; before it stand a statement that
\* was None and an adapter call, which ends in a module of Pass 5.
C27_Witness ==
  /\ Identified
  /\ Factories # {}
  /\ Prelim(MinOf(Factories)) = "ESM"
  /\ \E i \in DOMAIN ast : i < MinOf(Factories) /\ Prelim(i) = "None"
  /\ \E i \in DOMAIN ast :
       /\ i + 1 = MinOf(Factories)
       /\ Prelim(i) = "IMPORT"
       /\ \A k \in ModulesOf(i) : modules[k].wrapKind = "IMPORT"

\* Statements i and j were put into the same module by Pass 5.
SameCluster(i, j) ==
  /\ \E r \in DOMAIN runs : InRun(r, i) /\ InRun(r, j)
  /\ stmtInfo[i].moduleId = stmtInfo[j].moduleId

\* C28 (homogeneous clusters): the elements of a module made by Pass 5 have
\* either all an empty fingerprint or all a non-empty one.
C28_Homogeneous ==
  Clustered =>
    \A i, j \in DOMAIN ast :
      SameCluster(i, j) => ((ElementFingerprint(i) = {}) <=> (ElementFingerprint(j) = {}))

\* Pass 5 has made a module of three elements with non-empty fingerprints.
C28_Witness ==
  /\ Clustered
  /\ \E i \in DOMAIN ast :
       /\ ElementBorder(i) /\ SameCluster(i, i + 1)
       /\ ElementBorder(i + 1) /\ SameCluster(i + 1, i + 2)
       /\ ElementFingerprint(i) # {}

\* Module k was made by Pass 5: its statements come from an unassigned run.
MadeByPass5(k) == \E r \in DOMAIN runs : InRun(r, modules[k].statements[1])

OutsideRuntime(i) == \A k \in ModulesOf(i) : modules[k].wrapKind # "RUNTIME"

\* The positions of the module boundary comments in a text.
BoundaryPositions(text) ==
  {p \in DOMAIN text : text[p].k = "cmt" /\ text[p].tag[1] = "boundary"}

\* C30 (ids follow the source): in the result the module ids of the
\* statements outside the RUNTIME module never decrease along the source, and
\* the module boundary comments of the traced output carry strictly
\* increasing module ids.
C30_MonotoneIds ==
  /\ Identified =>
       \A i, j \in DOMAIN ast :
         (i < j /\ OutsideRuntime(i) /\ OutsideRuntime(j))
           => stmtInfo[i].moduleId <= stmtInfo[j].moduleId
  /\ (stage = "trace" /\ pc = "done") =>
       \A p, q \in BoundaryPositions(output) :
         p < q => output[p].tag[2] < output[q].tag[2]

\* A finished run with four boundary comments or more, whose RUNTIME module
\* has a statement after a statement of a later module.
C30_Witness ==
  /\ stage = "trace" /\ pc = "done"
  /\ Cardinality(BoundaryPositions(output)) >= 4
  /\ \E i, j \in DOMAIN ast :
       /\ i < j /\ OutsideRuntime(i) /\ ~OutsideRuntime(j)
       /\ stmtInfo[i].moduleId > stmtInfo[j].moduleId

Next ==
  \/ ReadAndParse
  \/ TraceDetectHelpers
  \/ TraceDefinitionMap
  \/ TraceDependencies
  \/ TraceWrapKinds
  \/ TracePreamble
  \/ TracePass1
  \/ TracePass2
  \/ TracePass3
  \/ TracePass4
  \/ TracePass5
  \/ TraceRenumber
  \/ TraceModuleDeps
  \/ TraceWriteOutput

NextRerun ==
  \/ Next
  \/ ClassifyDetectHelpers
  \/ ClassifyAnnotate
  \/ ClassifyHeader
  \/ ClassifyAccountAndWrite
  \/ Rerun

NextClassify ==
  \/ ReadAndParse
  \/ ClassifyDetectHelpers
  \/ ClassifyAnnotate
  \/ ClassifyHeader
  \/ ClassifyAccountAndWrite

Spec == Init /\ [][Next]_vars

SpecClassify == InitClassify /\ [][NextClassify]_vars

SpecRerun == InitRerun /\ [][NextRerun]_vars

====
